---- MODULE Spec2Model ----
(***************************************************************************)
(* Model of the ipcheck MCP server in its two variants:                    *)
(*   "lowlevel" : ipcheck_mcp.py          (mcp.server.Server handlers)     *)
(*   "fastmcp"  : ipcheck_mcp_fastmcp.py  (FastMCP tool and prompt)        *)
(* A run is one server process of one variant serving NumInv invocations   *)
(* of its handlers.  Every handler is a coroutine that suspends once, at   *)
(* `await client.get(...)`; the code before the await is one step, the     *)
(* upstream's answer is one step, and the code after the await is one      *)
(* step.  client.get with follow_redirects=True is one outbound call.      *)
(***************************************************************************)
EXTENDS Integers, Sequences, FiniteSets, TLC

\* ------------------------------------------------------------------ bounds
\* number of handler invocations in one run
NumInv == 2

Inv == 1..NumInv

\* ------------------------------------------------------------ program data
Variants == {"lowlevel", "fastmcp"}

\* serve(custom_user_agent: str | None = None): None, "" and a real override
NoneUA == "<None>"
CustomUAs == {NoneUA, "", "Custom/2.0"}

\* DEFAULT_USER_AGENT of either file
DEFAULT_USER_AGENT(v) ==
    IF v = "lowlevel" THEN "ModelContextProtocol/1.0 (IP Checker)"
    ELSE "ModelContextProtocol/1.0 (IP Checker via FastMCP)"

\* the `format` argument a caller passes: the key left out, a string, or a
\* JSON value that is no string
Absent == "<absent>"
NonStr == "<42>"
Args == {Absent, NonStr, "text", "json", "xml"}

\* url = "https://ifconfig.me"; the suffix "/all.json"
BaseUrl == <<"https://ifconfig.me">>
JsonSuffix == <<"/all.json">>

\* timeout=10
TIMEOUT == 10

\* what the upstream may answer to one GET
Statuses == {200, 304, 400, 503}
\* a 200 answer carries one of Bodies (one with surrounding whitespace), any
\* other status an error page
Bodies == {<<"203.0.113.5">>, <<" ", "203.0.113.5", "\n">>}
ErrorPage == <<"<html>", "\n">>
BodiesOf(status) == IF status = 200 THEN Bodies ELSE {ErrorPage}
TransportExcs == {"ConnectTimeout"}
\* an exception raised inside the try block that is no httpx.HTTPError
UnexpectedExcs == {"Exception"}

NoReply == [kind |-> "none", status |-> 0, text |-> <<>>, exc |-> "none"]
Replies ==
    UNION {[kind : {"response"}, status : {st}, text : BodiesOf(st),
            exc : {"none"}] : st \in Statuses}
    \cup [kind : {"transport"}, status : {0}, text : {<<>>}, exc : TransportExcs]
    \cup [kind : {"unexpected"}, status : {0}, text : {<<>>}, exc : UnexpectedExcs]

\* -------------------------------------------------------- errors, outcomes
\* an exception: its class, the McpError code, the message template, the
\* status code the message holds (0: none), and the exception it names
\* (through {e!r} or `from e`)
NoErr == [exc |-> "none", code |-> "none", msg |-> "", status |-> 0, cause |-> "none"]

Err(exc, code, msg, status, cause) ==
    [exc |-> exc, code |-> code, msg |-> msg, status |-> status, cause |-> cause]

\* outcome of a coroutine: raised an exception, or returned label + text.
\* A returned outcome whose err is set is a normal result that shows str(err).
Raise(e) == [raised |-> TRUE, label |-> <<>>, text |-> <<>>, err |-> e]
Return(label, text) == [raised |-> FALSE, label |-> label, text |-> text, err |-> NoErr]
ReturnShowing(label, e) == [raised |-> FALSE, label |-> label, text |-> <<>>, err |-> e]
Pending == [raised |-> FALSE, label |-> <<"<pending>">>, text |-> <<>>, err |-> NoErr]

\* ------------------------------------------------------------------- serve
\* faulty variant: the override is ignored
ServeIgnoringOverride(v, custom) == DEFAULT_USER_AGENT(v)

\* user_agent = custom_user_agent or DEFAULT_USER_AGENT   (None and "" are falsy);
\* the FastMCP handlers take no override: user_agent = DEFAULT_USER_AGENT
ServeUserAgent(v, custom) ==
    IF v = "lowlevel" /\ custom \notin {NoneUA, ""} THEN custom
    ELSE DEFAULT_USER_AGENT(v)

\* ---------------------------------------------------------- get_ip_address
\* faulty variant: the suffix is never added
TargetUrlNoSuffix(format_type) == BaseUrl

\* url = "https://ifconfig.me"; if format_type == "json": url += "/all.json"
TargetUrl(format_type) ==
    IF format_type = "json" THEN BaseUrl \o JsonSuffix ELSE BaseUrl

\* the arguments of client.get
Request(format_type, ua) ==
    [url |-> TargetUrl(format_type), follow_redirects |-> TRUE,
     user_agent |-> ua, timeout |-> TIMEOUT]

\* faulty variant: the call is sent a second time
ClientGetTwice(calls, req) == Append(Append(calls, req), req)

\* await client.get(...): one outbound call appended to the calls this
\* invocation has made
ClientGet(calls, req) == Append(calls, req)

\* fastmcp only: elif format_type != "text": raise ValueError(...)
LookupRejects(v, format_type) ==
    v = "fastmcp" /\ format_type \notin {"json", "text"}

ValueErr == Err("ValueError", "none", "Invalid format_type specified.", 0, "none")

\* faulty variant: > in place of >=
IsErrorStatusAbove(status) == status > 400

\* lowlevel: if response.status_code >= 400
IsErrorStatus(status) == status >= 400

\* fastmcp: response.raise_for_status() raises HTTPStatusError unless
\* response.is_success (200 <= status_code <= 299)
RaisesForStatus(status) == ~(200 <= status /\ status <= 299)

\* faulty variant of `return response.text`: response.text.strip()
RECURSIVE StripLeft(_)
StripLeft(t) ==
    IF t # <<>> /\ Head(t) \in {" ", "\n"} THEN StripLeft(Tail(t)) ELSE t

RECURSIVE StripRight(_)
StripRight(t) ==
    IF t # <<>> /\ t[Len(t)] \in {" ", "\n"}
    THEN StripRight(SubSeq(t, 1, Len(t) - 1)) ELSE t

ResponseTextStripped(r) == StripRight(StripLeft(r.text))

\* return response.text
ResponseText(r) == r.text

\* faulty variant: the exception is re-raised as it is
ExceptExceptionReraise(exc) == Err(exc, "none", "", 0, "none")

\* fastmcp: except Exception as e: raise RuntimeError("Unexpected ...") from e
ExceptException(exc) ==
    Err("RuntimeError", "none", "Unexpected error fetching IP", 0, exc)

\* fastmcp: except httpx.HTTPError as e:
\*     raise RuntimeError(f"HTTP Error fetching IP: {response.status_code}") from e
\* `response` is bound only when client.get returned: on a transport failure
\* the f-string raises UnboundLocalError inside the handler, which no clause of
\* the same try statement catches.
ExceptHTTPErrorFastmcp(r) ==
    IF r.kind = "response"
    THEN Err("RuntimeError", "none", "HTTP Error fetching IP: {status}",
             r.status, "HTTPStatusError")
    ELSE Err("UnboundLocalError", "none",
             "cannot access local variable 'response'", 0, "none")

\* lowlevel: except httpx.HTTPError as e:
\*     raise McpError(ErrorData(code=INTERNAL_ERROR, message=f"...: {e!r}"))
ExceptHTTPErrorLowlevel(r) ==
    Err("McpError", "INTERNAL_ERROR", "Failed to fetch IP address: {e!r}", 0, r.exc)

\* lowlevel: the code after the await
LookupLowlevel(r) ==
    IF r.kind = "response" THEN
        IF IsErrorStatus(r.status)
        THEN Raise(Err("McpError", "INTERNAL_ERROR",
                       "Failed to fetch IP address - status code {status}",
                       r.status, "none"))
        ELSE Return(<<>>, ResponseText(r))
    ELSE IF r.kind = "transport" THEN Raise(ExceptHTTPErrorLowlevel(r))
    ELSE Raise(Err(r.exc, "none", "", 0, "none"))

\* fastmcp: the code after the await
LookupFastmcp(r) ==
    IF r.kind = "response" THEN
        IF RaisesForStatus(r.status) THEN Raise(ExceptHTTPErrorFastmcp(r))
        ELSE Return(<<>>, ResponseText(r))
    ELSE IF r.kind = "transport" THEN Raise(ExceptHTTPErrorFastmcp(r))
    ELSE Raise(ExceptException(r.exc))

get_ip_address(v, r) ==
    IF v = "lowlevel" THEN LookupLowlevel(r) ELSE LookupFastmcp(r)

\* ---------------------------------------------------------------- handlers
Handlers(v) == IF v = "lowlevel" THEN {"call_tool", "get_prompt"}
               ELSE {"ipcheck", "show_ip"}

\* Field(default="text") and format: Literal[...] = "text"
FormatOf(arg) == IF arg = Absent THEN "text" ELSE arg

\* call_tool: IPCheckOptions(**arguments) raises ValidationError (a ValueError)
\* for a format that is no str, mapped to McpError(INVALID_PARAMS)
SchemaRejects(arg) == arg = NonStr

SchemaErr == Err("McpError", "INVALID_PARAMS", "{validation error}", 0, "ValidationError")

\* faulty variant: the membership test is left out
FormatRejectsNone(format_type) == FALSE

\* call_tool: if format_type not in ["text", "json"]: raise McpError(INVALID_PARAMS)
FormatRejects(format_type) == format_type \notin {"text", "json"}

FormatErr == Err("McpError", "INVALID_PARAMS", "Format must be 'text' or 'json'", 0, "none")

\* what a handler does before it awaits client.get: it raises, or it calls
\* get_ip_address with a format
Rejection(v, h, arg) ==
    IF h = "call_tool" THEN
        IF SchemaRejects(arg) THEN SchemaErr
        ELSE IF FormatRejects(FormatOf(arg)) THEN FormatErr
        ELSE NoErr
    ELSE IF h = "ipcheck" THEN
        IF LookupRejects(v, FormatOf(arg)) THEN ValueErr ELSE NoErr
    ELSE NoErr

LookupFormat(h, arg) ==
    IF h \in {"get_prompt", "show_ip"} THEN "text" ELSE FormatOf(arg)

\* faulty variant: the tool returns the error as text, as the prompts do
ToolSwallows(label, lk) ==
    IF lk.raised THEN ReturnShowing(label, lk.err) ELSE Return(label, lk.text)

\* call_tool: ip_info = await get_ip_address(...); return [TextContent(...)]
\* ipcheck: the same, and `except Exception: ... raise`
ToolResult(label, lk) ==
    IF lk.raised THEN Raise(lk.err) ELSE Return(label, lk.text)

\* get_prompt: except McpError as e: return GetPromptResult(... text=str(e))
get_prompt_result(lk) ==
    IF lk.raised THEN
        IF lk.err.exc = "McpError"
        THEN ReturnShowing(<<"Failed to fetch IP address">>, lk.err)
        ELSE Raise(lk.err)
    ELSE Return(<<"The server's public IP address is: ">>, lk.text)

\* show_ip: except Exception as e: return f"Sorry, ... {str(e)}"
show_ip_result(lk) ==
    IF lk.raised
    THEN ReturnShowing(
           <<"Sorry, I encountered an error trying to fetch the IP address: ">>,
           lk.err)
    ELSE Return(<<"The server's public IP address is: ">>, lk.text)

\* the code of a handler after get_ip_address returned or raised
HandlerResult(h, fmt, lk) ==
    IF h = "call_tool"
    THEN ToolResult(<<"Server IP information from ifconfig.me:\n">>, lk)
    ELSE IF h = "ipcheck"
    THEN ToolResult(<<"Server IP information (", fmt, "):\n">>, lk)
    ELSE IF h = "get_prompt" THEN get_prompt_result(lk)
    ELSE show_ip_result(lk)

\* faulty variant: a client shared by all invocations hands over any answer
AnyReply(net, i) == net

\* each invocation awaits the answer on the connection of its own
\* `async with httpx.AsyncClient() as client`
OwnReplies(net, i) == {m \in net : m.to = i}

\* -------------------------------------------------------------------- state
VARIABLES
    variant,            \* which file runs
    custom_user_agent,  \* serve's argument
    user_agent,         \* the user agent the handlers close over
    pc,                 \* per invocation: "idle", "awaiting", "done"
    handler,            \* per invocation: the handler invoked
    arg,                \* per invocation: the format argument passed
    format_type,        \* per invocation: get_ip_address's local
    calls,              \* per invocation: the outbound calls made so far
    net,                \* answers of the upstream not yet received
    upstream,           \* per invocation: what the upstream answered its call
    lookup,             \* per invocation: outcome of get_ip_address
    outcome             \* per invocation: outcome of the handler

vars == <<variant, custom_user_agent, user_agent, pc, handler, arg,
          format_type, calls, net, upstream, lookup, outcome>>

Init ==
    /\ variant \in Variants
    /\ custom_user_agent \in
         (IF variant = "lowlevel" THEN CustomUAs ELSE {NoneUA})
    /\ user_agent = ServeUserAgent(variant, custom_user_agent)
    /\ pc = [i \in Inv |-> "idle"]
    /\ handler = [i \in Inv |-> "none"]
    /\ arg = [i \in Inv |-> Absent]
    /\ format_type = [i \in Inv |-> "none"]
    /\ calls = [i \in Inv |-> <<>>]
    /\ net = {}
    /\ upstream = [i \in Inv |-> NoReply]
    /\ lookup = [i \in Inv |-> Pending]
    /\ outcome = [i \in Inv |-> Pending]

\* a handler is invoked and runs up to its await, or to the exception it
\* raises before any call
Start(i, h, a) ==
    /\ pc[i] = "idle"
    /\ h \in Handlers(variant)
    /\ handler' = [handler EXCEPT ![i] = h]
    /\ arg' = [arg EXCEPT ![i] = a]
    /\ IF Rejection(variant, h, a) # NoErr
       THEN /\ pc' = [pc EXCEPT ![i] = "done"]
            /\ outcome' = [outcome EXCEPT ![i] = Raise(Rejection(variant, h, a))]
            /\ lookup' = [lookup EXCEPT ![i] =
                 IF h = "ipcheck" THEN Raise(Rejection(variant, h, a)) ELSE @]
            /\ UNCHANGED <<format_type, calls>>
       ELSE /\ pc' = [pc EXCEPT ![i] = "awaiting"]
            /\ format_type' = [format_type EXCEPT ![i] = LookupFormat(h, a)]
            /\ calls' = [calls EXCEPT
                 ![i] = ClientGet(@, Request(LookupFormat(h, a), user_agent))]
            /\ UNCHANGED <<outcome, lookup>>
    /\ UNCHANGED <<variant, custom_user_agent, user_agent, net, upstream>>

call_tool(i, a) == variant = "lowlevel" /\ Start(i, "call_tool", a)
get_prompt(i) == variant = "lowlevel" /\ Start(i, "get_prompt", Absent)
ipcheck(i, a) == variant = "fastmcp" /\ Start(i, "ipcheck", a)
show_ip(i) == variant = "fastmcp" /\ Start(i, "show_ip", Absent)

\* the upstream answers the call of invocation i, or the call fails
Respond(i, r) ==
    /\ pc[i] = "awaiting"
    /\ upstream[i] = NoReply
    /\ net' = net \cup {[to |-> i, r |-> r]}
    /\ upstream' = [upstream EXCEPT ![i] = r]
    /\ UNCHANGED <<variant, custom_user_agent, user_agent, pc, handler, arg,
                   format_type, calls, lookup, outcome>>

\* the coroutine resumes: get_ip_address returns or raises, then the handler
Resume(i) ==
    /\ pc[i] = "awaiting"
    /\ \E m \in OwnReplies(net, i) :
         /\ net' = net \ {m}
         /\ lookup' = [lookup EXCEPT ![i] = get_ip_address(variant, m.r)]
         /\ outcome' = [outcome EXCEPT ![i] =
              HandlerResult(handler[i], format_type[i],
                            get_ip_address(variant, m.r))]
    /\ pc' = [pc EXCEPT ![i] = "done"]
    /\ UNCHANGED <<variant, custom_user_agent, user_agent, handler, arg,
                   format_type, calls, upstream>>

Next ==
    \E i \in Inv :
        \/ \E a \in Args : call_tool(i, a)
        \/ get_prompt(i)
        \/ \E a \in Args : ipcheck(i, a)
        \/ show_ip(i)
        \/ \E r \in Replies : Respond(i, r)
        \/ Resume(i)

Spec == Init /\ [][Next]_vars

\* ------------------------------------------------------------------ claims
Done(i) == pc[i] = "done"
Tools == {"call_tool", "ipcheck"}
Prompts == {"get_prompt", "show_ip"}
Answered(i) == Done(i) /\ upstream[i] # NoReply

\* the machine-readable kind of an error: the exception class and, for an
\* McpError, its code
Kind(e) == <<e.exc, e.code>>

IsInvalidParameter(e) ==
    \/ e.exc = "McpError" /\ e.code = "INVALID_PARAMS"
    \/ e.exc = "ValueError"

\* the wrappers get_ip_address raises on purpose
IsWrapped(e) ==
    \/ e.exc = "McpError" /\ e.code = "INTERNAL_ERROR"
    \/ e.exc = "RuntimeError"

\* the invocation got past the validation of its format
Validated(i) ==
    /\ pc[i] # "idle"
    /\ handler[i] \in Prompts \/ FormatOf(arg[i]) \in {"text", "json"}

\* C1: a tool invocation whose format is outside {"text","json"} ends in an
\* invalid-parameter error (McpError INVALID_PARAMS, or ValueError in the
\* FastMCP variant) and has made no outbound call at any point.
C1_InvalidFormatRejected ==
    \A i \in Inv :
        (pc[i] # "idle" /\ handler[i] \in Tools
            /\ FormatOf(arg[i]) \notin {"text", "json"})
        => /\ Done(i)
           /\ outcome[i].raised
           /\ IsInvalidParameter(outcome[i].err)
           /\ calls[i] = <<>>
           /\ upstream[i] = NoReply

C1_Witness ==
    \E i \in Inv :
        /\ variant = "lowlevel" /\ handler[i] = "call_tool" /\ arg[i] = "xml"
        /\ Done(i) /\ outcome[i].err.code = "INVALID_PARAMS" /\ calls[i] = <<>>

\* C2 (as amended): a response with status >= 400 makes the lookup raise an
\* error whose message carries that status code and differs from the message
\* of every transport or unexpected failure; no body is returned.
C2_StatusErrorCarriesCode ==
    \A i \in Inv :
        (Answered(i) /\ upstream[i].kind = "response" /\ upstream[i].status >= 400)
        => /\ lookup[i].raised
           /\ lookup[i].err.status = upstream[i].status
           /\ lookup[i].text = <<>>
           /\ outcome[i].text = <<>>
           /\ \A j \in Inv :
                (Answered(j) /\ upstream[j].kind \in {"transport", "unexpected"})
                => lookup[j].err.msg # lookup[i].err.msg

C2_Witness ==
    \E i, j \in Inv :
        /\ Answered(i) /\ upstream[i].kind = "response" /\ upstream[i].status = 503
        /\ lookup[i].raised /\ lookup[i].err.status = 503
        /\ Answered(j) /\ upstream[j].kind = "transport"

\* C2 (as claimed): the error raised for a status >= 400 carries the status
\* and has a kind distinct from the kind of transport and unexpected failures.
C2_Original ==
    \A i \in Inv :
        (Answered(i) /\ upstream[i].kind = "response" /\ upstream[i].status >= 400)
        => /\ lookup[i].raised
           /\ lookup[i].err.status = upstream[i].status
           /\ lookup[i].text = <<>>
           /\ \A j \in Inv :
                (Answered(j) /\ upstream[j].kind \in {"transport", "unexpected"})
                => Kind(lookup[j].err) # Kind(lookup[i].err)

\* C3: a transport failure of the GET makes the lookup raise one of its
\* wrapping errors, carrying the transport exception as its cause.
C3_TransportErrorCarriesCause ==
    \A i \in Inv :
        (Answered(i) /\ upstream[i].kind = "transport")
        => /\ lookup[i].raised
           /\ IsWrapped(lookup[i].err)
           /\ lookup[i].err.cause = upstream[i].exc

\* C4 (as amended): a lookup failure is never dropped: a tool handler ends in
\* that same error; a prompt handler ends either in that error or in a normal
\* result that shows it (get_prompt for an McpError, show_ip always).
C4_ToolFailurePropagates ==
    \A i \in Inv :
        (Done(i) /\ lookup[i].raised)
        => /\ outcome[i].err = lookup[i].err
           /\ handler[i] \in Tools => outcome[i].raised
           /\ handler[i] = "show_ip" => ~outcome[i].raised
           /\ handler[i] = "get_prompt" =>
                (outcome[i].raised <=> lookup[i].err.exc # "McpError")

C4_Witness ==
    \E i \in Inv :
        /\ Answered(i) /\ handler[i] \in Tools
        /\ lookup[i].raised /\ outcome[i].raised

\* C4 (as claimed): whenever the lookup fails, the handler that called it
\* ends in an error.
C4_Original ==
    \A i \in Inv : (Done(i) /\ lookup[i].raised) => outcome[i].raised

\* C5 (as amended): for a 2xx response, and in the low-level variant for any
\* response with status < 400, the lookup returns exactly the body.
C5_BodyVerbatim ==
    \A i \in Inv :
        (/\ Answered(i) /\ upstream[i].kind = "response"
         /\ \/ 200 <= upstream[i].status /\ upstream[i].status <= 299
            \/ variant = "lowlevel" /\ upstream[i].status < 400)
        => /\ ~lookup[i].raised
           /\ lookup[i].text = upstream[i].text

C5_Witness ==
    \E i \in Inv :
        /\ Answered(i) /\ upstream[i].kind = "response" /\ upstream[i].status = 200
        /\ upstream[i].text = <<" ", "203.0.113.5", "\n">>
        /\ lookup[i].text = <<" ", "203.0.113.5", "\n">>

\* C5 (as claimed): for every response with status < 400 the lookup returns
\* exactly the body.
C5_Original ==
    \A i \in Inv :
        (Answered(i) /\ upstream[i].kind = "response" /\ upstream[i].status < 400)
        => /\ ~lookup[i].raised
           /\ lookup[i].text = upstream[i].text

\* C6: every outbound call goes to the base endpoint when the format is
\* "text" and to the base endpoint plus the JSON suffix when it is "json";
\* no call is made for another format or to another URL.
C6_UrlByFormat ==
    \A i \in Inv : \A k \in 1..Len(calls[i]) :
        /\ LookupFormat(handler[i], arg[i]) \in {"text", "json"}
        /\ LookupFormat(handler[i], arg[i]) = "text"
             => calls[i][k].url = <<"https://ifconfig.me">>
        /\ LookupFormat(handler[i], arg[i]) = "json"
             => calls[i][k].url = <<"https://ifconfig.me", "/all.json">>

C6_Witness ==
    \E i, j \in Inv :
        /\ handler[i] \in Tools /\ arg[i] = "json" /\ Len(calls[i]) = 1
        /\ calls[i][1].url = <<"https://ifconfig.me", "/all.json">>
        /\ handler[j] \in Tools /\ arg[j] = "text" /\ Len(calls[j]) = 1
        /\ calls[j][1].url = <<"https://ifconfig.me">>

\* C7 (as amended): the User-Agent of every outbound call is the default
\* constant when serve got no override or an empty one, and the override
\* otherwise.
C7_UserAgentHeader ==
    \A i \in Inv : \A k \in 1..Len(calls[i]) :
        calls[i][k].user_agent =
            IF custom_user_agent \in {NoneUA, ""}
            THEN DEFAULT_USER_AGENT(variant) ELSE custom_user_agent

C7_Witness ==
    \E i \in Inv :
        /\ custom_user_agent = "Custom/2.0"
        /\ Len(calls[i]) = 1 /\ calls[i][1].user_agent = "Custom/2.0"

\* C7 (as claimed): the User-Agent is the default constant when serve got no
\* override, and the override for every override, the empty string included.
C7_Original ==
    \A i \in Inv : \A k \in 1..Len(calls[i]) :
        calls[i][k].user_agent =
            IF custom_user_agent = NoneUA
            THEN DEFAULT_USER_AGENT(variant) ELSE custom_user_agent

\* C8 (as amended): a failure inside the lookup that is no httpx.HTTPError is
\* raised as RuntimeError("Unexpected error fetching IP") carrying the cause
\* in the FastMCP variant, and propagates as the raw exception in the
\* low-level variant.
C8_UnexpectedFailure ==
    \A i \in Inv :
        (Answered(i) /\ upstream[i].kind = "unexpected")
        => /\ lookup[i].raised
           /\ variant = "fastmcp" =>
                /\ lookup[i].err.exc = "RuntimeError"
                /\ lookup[i].err.msg = "Unexpected error fetching IP"
                /\ lookup[i].err.cause = upstream[i].exc
           /\ variant = "lowlevel" =>
                /\ lookup[i].err.exc = upstream[i].exc
                /\ ~IsWrapped(lookup[i].err)

C8_Witness ==
    \E i \in Inv :
        /\ variant = "fastmcp" /\ Answered(i) /\ upstream[i].kind = "unexpected"
        /\ lookup[i].err.exc = "RuntimeError"

\* C8 (as claimed): a failure inside the lookup that is neither a status >= 400
\* nor a transport failure is raised as one of the lookup's wrapping errors,
\* never as the raw exception.
C8_Original ==
    \A i \in Inv :
        (Answered(i) /\ upstream[i].kind = "unexpected")
        => lookup[i].raised /\ IsWrapped(lookup[i].err)

\* C9: an invocation that passed the validation of its format has made
\* exactly one outbound call in every state from its await on, whatever the
\* upstream answered, and is done as soon as it has received the answer.
C9_ExactlyOneCall ==
    \A i \in Inv :
        Validated(i)
        => /\ Len(calls[i]) = 1
           /\ pc[i] \in {"awaiting", "done"}
           /\ Done(i) <=> (upstream[i] # NoReply /\ \A m \in net : m.to # i)

C9_Witness ==
    \E i, j \in Inv :
        /\ Answered(i) /\ upstream[i].kind = "transport" /\ Len(calls[i]) = 1
        /\ Answered(j) /\ upstream[j].kind = "response"
        /\ upstream[j].status = 503 /\ Len(calls[j]) = 1

\* C10: under every interleaving, the outcome and the request of an invocation
\* are those its own handler, format, user agent and upstream answer give when
\* it runs alone; two invocations with equal inputs end in equal outcomes.
C10_Independent ==
    /\ \A i \in Inv :
         Validated(i) =>
            /\ calls[i] = <<Request(LookupFormat(handler[i], arg[i]),
                                    ServeUserAgent(variant, custom_user_agent))>>
            /\ Done(i) =>
                 outcome[i] = HandlerResult(handler[i],
                                  LookupFormat(handler[i], arg[i]),
                                  get_ip_address(variant, upstream[i]))
    /\ \A i, j \in Inv :
         (Done(i) /\ Done(j) /\ handler[i] = handler[j] /\ arg[i] = arg[j]
             /\ upstream[i] = upstream[j])
         => outcome[i] = outcome[j]

C10_Witness ==
    \E i, j \in Inv :
        /\ i < j /\ Answered(i) /\ Answered(j)
        /\ upstream[i].kind = "response" /\ upstream[i].status = 200
        /\ upstream[j].kind = "transport"
        /\ ~outcome[i].raised /\ outcome[i].text = upstream[i].text

====
